---------------------------- MODULE Spec2Model ----------------------------
(***************************************************************************)
(* Edge ingestion of the Kron (synthetic) loader and of the plain          *)
(* edge-list directory loader: the backing-store scanner (kron_reader),    *)
(* the partition planner and the scanner cache (ll_loader_bin::init), the  *)
(* edge-list adapters (bin_loader) and the front-end operations.           *)
(*                                                                         *)
(* Records are pairs <<first, second>> as stored on disk; an adapter       *)
(* delivers <<tail, head>> = <<second, first>>.                            *)
(***************************************************************************)
EXTENDS Integers, Sequences, FiniteSets, TLC

(***************************************************************************)
(* Bounds of the model.                                                    *)
(***************************************************************************)
\* Kron<n>-<m> directories with n in Exponents, m in 0..MaxM.
MaxM == 2
\* Records per backing file written by the generator: 1..MaxEpf.
MaxEpf == 3
\* lc_partial_load_num_parts in 0..MaxParts, lc_partial_load_part in 0..MaxParts+1.
MaxParts == 3
\* Capacity of a read buffer, in records.  The source sets 1024 * 1024; the
\* model keeps the code's arithmetic and scales the capacity down so that
\* files smaller than, equal to and larger than the buffer all occur.
BUFFER_SIZE == 2
\* The planner on its own is called for totals 0..MaxPlanTotal and for
\* num_parts in 0..MaxPlanParts, part in 0..MaxPlanParts+1.
MaxPlanTotal == 12
MaxPlanParts == 4
\* Plain directories hold up to MaxDirFiles files of up to MaxFileRecs records.
MaxDirFiles == 2
MaxFileRecs == 3
\* The single-file loader's size_t counter _edges is kept to CounterBits bits.
CounterBits == 3
\* The consumer of the single-file loader rewinds at most MaxRewinds times.
MaxRewinds == 1

(***************************************************************************)
(* Small helpers.                                                          *)
(***************************************************************************)
Min(a, b) == IF a < b THEN a ELSE b

Max(a, b) == IF a < b THEN b ELSE a

RECURSIVE Pow2(_)
Pow2(n) == IF n = 0 THEN 1 ELSE 2 * Pow2(n - 1)

(***************************************************************************)
(* Input paths and disk contents.                                          *)
(***************************************************************************)
\* A Kron directory name carries n and m (KRON_FILE_FORMAT_REGEX).
Exponents == {1, 2}

Paths == Exponents \X (0..MaxM)

\* The value read into an EdgeType slot that nothing has written yet.
Uninit == <<-1, -1>>

\* The record stored at offset off of backing file file_id of path p.
NodeOf(p, file_id, off, k) ==
    (((p[1] * 10 + p[2]) * 100 + file_id) * 100 + off) * 2 + k

RecordOf(p, file_id, off) ==
    <<NodeOf(p, file_id, off, 0), NodeOf(p, file_id, off, 1)>>

\* Files block-00.bin, block-01.bin, ... that the generator writes for
\* `total` records with `epf` records per file: every file full but the last.
RECURSIVE GeneratedFiles(_, _)
GeneratedFiles(total, epf) ==
    IF total <= epf THEN <<total>>
    ELSE <<epf>> \o GeneratedFiles(total - epf, epf)

NameTotalEdges(p) == Pow2(p[1]) * p[2]

LargestTotal == CHOOSE t \in {NameTotalEdges(p) : p \in Paths} :
                    \A p \in Paths : NameTotalEdges(p) <= t

\* A directory: files[i+1] is the record count of block-<i>.bin, and
\* bad holds the ids of the files on which a read fails.
WellFormedDisk(epf) ==
    [p \in Paths |-> [files |-> GeneratedFiles(NameTotalEdges(p), epf), bad |-> {}]]

(***************************************************************************)
(* kron_reader: the backing-store scanner of the synthetic format.         *)
(* A scanner is a record of the class's fields; file = -1 is nullptr,      *)
(* otherwise the id of the backing file the open handle refers to.  An     *)
(* operation yields the scanner after the call (r), its return value (ok), *)
(* how the call ended (st: "ok", "abort" for abort() or an uncaught        *)
(* exception, "ub" for undefined behaviour) and the outputs it wrote.      *)
(***************************************************************************)
Outcome(r, ok, st) == [r |-> r, ok |-> ok, st |-> st, tail |-> -1, head |-> -1]

\* kron_reader::kron_reader.  file_size(filepath(0)) throws when block-00.bin
\* does not exist.
kron_reader(p, d) ==
    LET r == [alive |-> TRUE,
              path |-> p,
              buffer |-> [i \in 0..(BUFFER_SIZE - 1) |-> Uninit],
              cur |-> 0, begin |-> 0, len |-> 0, file |-> -1, cur_file_id |-> 0,
              total_nodes |-> Pow2(p[1]),
              total_edges |-> Pow2(p[1]) * p[2],
              edges_per_file |-> IF Len(d.files) = 0 THEN 0 ELSE d.files[1]]
    IN  Outcome(r, TRUE, IF Len(d.files) = 0 THEN "abort" ELSE "ok")

total_edges(r) == r.total_edges

total_nodes(r) == r.total_nodes

\* fread(_buffer, sizeof(EdgeType), BUFFER_SIZE, _file) after an fseek to
\* record file_off of file file_id: the number of records read.
FreadCount(d, file_id, file_off) ==
    IF file_id \in d.bad THEN 0
    ELSE Min(BUFFER_SIZE, Max(0, d.files[file_id + 1] - file_off))

\* kron_reader::seek, the part after the two early returns.
seek_refill(r, n, d) ==
    IF r.edges_per_file = 0 THEN Outcome(r, FALSE, "ub")   \* n / 0
    ELSE
    LET file_id  == n \div r.edges_per_file
        file_off == n % r.edges_per_file
        reopen   == r.file = -1 \/ file_id # r.cur_file_id
    IN  IF reopen /\ file_id >= Len(d.files)
        THEN Outcome([r EXCEPT !.file = -1], FALSE, "abort")   \* fopen failed
        ELSE
        LET cnt == FreadCount(d, file_id, file_off)
            r2  == [r EXCEPT !.file = file_id,
                             !.cur_file_id = file_id,
                             !.buffer = [i \in 0..(BUFFER_SIZE - 1) |->
                                            IF i < cnt
                                            THEN RecordOf(r.path, file_id, file_off + i)
                                            ELSE r.buffer[i]],
                             !.len = cnt,
                             !.begin = n,
                             !.cur = 0]
        IN  Outcome(r2, TRUE, IF file_id \in d.bad THEN "abort" ELSE "ok")

\* seek as it would be if the in-window branch returned without moving _cur.
seek_keep_cursor(r, n, d) ==
    IF n >= r.total_edges THEN Outcome(r, FALSE, "ok")
    ELSE IF n >= r.begin /\ n < r.begin + r.len
         THEN Outcome(r, TRUE, "ok")
         ELSE seek_refill(r, n, d)

\* seek as it would be without the test of the buffered window.
seek_always_refill(r, n, d) ==
    IF n >= r.total_edges THEN Outcome(r, FALSE, "ok")
    ELSE seek_refill(r, n, d)

\* seek as it would be if the range test were n > _total_edges.
seek_admits_total(r, n, d) ==
    IF n > r.total_edges THEN Outcome(r, FALSE, "ok")
    ELSE IF n >= r.begin /\ n < r.begin + r.len
         THEN Outcome([r EXCEPT !.cur = n - r.begin], TRUE, "ok")
         ELSE seek_refill(r, n, d)

\* kron_reader::seek
seek(r, n, d) ==
    IF n >= r.total_edges THEN Outcome(r, FALSE, "ok")
    ELSE IF n >= r.begin /\ n < r.begin + r.len
         THEN Outcome([r EXCEPT !.cur = n - r.begin], TRUE, "ok")
         ELSE seek_refill(r, n, d)

\* next as it would be if the refill started one record past the buffer.
next_skipping(r, d) ==
    LET s == IF r.cur = r.len THEN seek(r, r.begin + r.len + 1, d)
                              ELSE Outcome(r, TRUE, "ok")
    IN  IF s.st # "ok" \/ ~s.ok THEN s
        ELSE IF s.r.cur >= BUFFER_SIZE
             THEN Outcome(s.r, FALSE, "ub")
             ELSE [r    |-> [s.r EXCEPT !.cur = s.r.cur + 1],
                   ok   |-> TRUE,
                   st   |-> "ok",
                   tail |-> s.r.buffer[s.r.cur][2],
                   head |-> s.r.buffer[s.r.cur][1]]

\* kron_reader::next
next(r, d) ==
    LET s == IF r.cur = r.len THEN seek(r, r.begin + r.len, d)
                              ELSE Outcome(r, TRUE, "ok")
    IN  IF s.st # "ok" \/ ~s.ok THEN s
        ELSE IF s.r.cur >= BUFFER_SIZE
             THEN Outcome(s.r, FALSE, "ub")   \* _buffer[_cur] past the array
             ELSE [r    |-> [s.r EXCEPT !.cur = s.r.cur + 1],
                   ok   |-> TRUE,
                   st   |-> "ok",
                   tail |-> s.r.buffer[s.r.cur][2],
                   head |-> s.r.buffer[s.r.cur][1]]

(***************************************************************************)
(* The partition planner: the second half of ll_loader_bin::init.  cfg is  *)
(* the pair <<lc_partial_load_num_parts, lc_partial_load_part>>; a null    *)
(* config is <<0, 0>>.                                                     *)
(***************************************************************************)
NullConfig == <<0, 0>>

\* With num_parts = 0 the part is not looked at.
Configs == {NullConfig} \cup ((1..MaxParts) \X (0..(MaxParts + 1)))

\* The planner as it would be if it divided without the divisibility test.
plan_truncating(total, cfg) ==
    LET nparts == cfg[1]
        part   == cfg[2]
    IN  IF nparts > 0
        THEN IF part <= 0 \/ part > nparts
             THEN [st |-> "abort", needed_edge |-> total, begin_edge |-> 0]
             ELSE [st |-> "ok",
                   needed_edge |-> total \div nparts,
                   begin_edge |-> (part - 1) * (total \div nparts)]
        ELSE [st |-> "ok", needed_edge |-> total, begin_edge |-> 0]

\* The planner as it would be with the part taken as 0-based.
plan_part_from_zero(total, cfg) ==
    LET nparts == cfg[1]
        part   == cfg[2]
    IN  IF nparts > 0
        THEN IF total % nparts # 0 \/ part <= 0 \/ part > nparts
             THEN [st |-> "abort", needed_edge |-> total, begin_edge |-> 0]
             ELSE [st |-> "ok",
                   needed_edge |-> total \div nparts,
                   begin_edge |-> part * (total \div nparts)]
        ELSE [st |-> "ok", needed_edge |-> total, begin_edge |-> 0]

plan(total, cfg) ==
    LET nparts == cfg[1]
        part   == cfg[2]
    IN  IF nparts > 0
        THEN IF total % nparts # 0
             THEN [st |-> "abort", needed_edge |-> total, begin_edge |-> 0]
             ELSE IF part <= 0 \/ part > nparts
                  THEN [st |-> "abort", needed_edge |-> total, begin_edge |-> 0]
                  ELSE [st |-> "ok",
                        needed_edge |-> total \div nparts,
                        begin_edge |-> (part - 1) * (total \div nparts)]
        ELSE [st |-> "ok", needed_edge |-> total, begin_edge |-> 0]

(***************************************************************************)
(* State.                                                                  *)
(***************************************************************************)
VARIABLES
    disk,       \* the Kron directories that exist: path -> [files, bad]
    proc,       \* how the process stands: "ok" (running), "abort" (abort() or an uncaught exception), "ub"
    path,       \* ll_loader_bin::_path (NoPath: the empty string)
    reader,     \* ll_loader_bin::_reader: 0 is nullptr, else a scanner object
    readers,    \* the kron_reader objects
    adapters,   \* the bin_loader objects
    pc,         \* 0, or the adapter of the load_direct/load_incremental in progress
    call,       \* the front-end call that led to this state, if one did
    ret,        \* what the scanner or adapter operation that led to this state returned
    pl,         \* planner harness: the plans computed for one (total, num_parts)
    dir,        \* plain directory: the files' record counts in iteration order
    dl,         \* the plain-directory bin_loader
    binfile,    \* single .bin file: its record count, or -1 when it does not exist
    bl          \* the single-file bin_loader

synVars == <<path, reader, readers, adapters, pc, call, ret>>

vars == <<disk, proc, path, reader, readers, adapters, pc, call, ret, pl, dir, binfile, bl, dl>>

NoPath == <<0, 0>>

ScannerIds == {1, 2}

AdapterIds == {1, 2}

\* The storage of a scanner that does not exist (never built, or destroyed).
NoReader ==
    [alive |-> FALSE, path |-> NoPath,
     buffer |-> [i \in 0..(BUFFER_SIZE - 1) |-> Uninit],
     cur |-> 0, begin |-> 0, len |-> 0, file |-> -1, cur_file_id |-> 0,
     total_nodes |-> 0, total_edges |-> 0, edges_per_file |-> 0]

\* An adapter: the fields of bin_loader, who owns it ("load": a local of
\* load_direct/load_incremental, "source": returned by create_data_source),
\* and the history of its current pass: the config it was planned from, the
\* records delivered since the last rewind (out), whether exhaustion has been
\* signalled since (eof), and the records of its first complete pass (pass1).
\* stale tells that the kron_reader its _reader points to has been destroyed.
NoAdapter ==
    [alive |-> FALSE, owner |-> "none", reader |-> 0,
     begin_edge |-> 0, needed_edges |-> 0, loaded_edges |-> 0,
     cfg |-> NullConfig, fresh |-> FALSE, stale |-> FALSE,
     out |-> <<>>, eof |-> FALSE, have1 |-> FALSE, pass1 |-> <<>>]

NoRet == [op |-> "none", arg |-> 0, ok |-> FALSE, tail |-> -1, head |-> -1]

NoCall == [op |-> "none", file |-> NoPath, cfg |-> NullConfig]

LiveAdapters == {a \in AdapterIds : adapters[a].alive}

FreeAdapter == CHOOSE a \in AdapterIds : ~adapters[a].alive /\
                   \A b \in AdapterIds : ~adapters[b].alive => a <= b

\* The object a newly built scanner occupies: make_unique builds the new
\* kron_reader before the assignment destroys the old one.
FreeScanner == IF reader = 1 THEN 2 ELSE 1

\* kron_reader::~kron_reader: delete [] _buffer.  The destructor does not
\* fclose(_file): the storage is gone, and the handle the scanner had open,
\* if it had one, stays open.  Nothing can reach that handle any more, so
\* all that is kept of it is that it is open (file = 0).
kron_reader_dtor(r) == [NoReader EXCEPT !.file = IF r.file = -1 THEN -1 ELSE 0]

(***************************************************************************)
(* ll_loader_bin::init: the scanner cache, then the planner.               *)
(***************************************************************************)
\* The cache test as it would be without the comparison of paths.
must_open_when_null(file) == reader = 0

\* if(_reader == nullptr || _path != file)
must_open(file) == reader = 0 \/ path # file

\* init as it would be if the scanner read its first buffer before the
\* configuration is validated.
init_reads_first(file, cfg) ==
    LET k   == kron_reader(file, disk[file])
        opn == must_open(file)
        p1  == IF opn THEN file ELSE path
        rd1 == IF opn /\ k.st = "ok" THEN FreeScanner ELSE reader
        rs1 == IF opn /\ k.st = "ok"
               THEN [s \in ScannerIds |->
                        IF s = FreeScanner THEN k.r
                        ELSE IF s = reader THEN kron_reader_dtor(readers[s])
                        ELSE readers[s]]
               ELSE readers
    IN  IF opn /\ k.st # "ok"
        THEN [st |-> k.st, path |-> p1, reader |-> rd1, readers |-> rs1,
              opened |-> FALSE, needed_edge |-> 0, begin_edge |-> 0]
        ELSE LET q   == plan(total_edges(rs1[rd1]), cfg)
                 rs2 == [rs1 EXCEPT ![rd1] = seek(rs1[rd1], 0, disk[file]).r]
             IN  [st |-> q.st, path |-> p1, reader |-> rd1, readers |-> rs2,
                  opened |-> opn,
                  needed_edge |-> q.needed_edge, begin_edge |-> q.begin_edge]

init(file, cfg) ==
    LET k   == kron_reader(file, disk[file])
        opn == must_open(file)
        p1  == IF opn THEN file ELSE path
        rd1 == IF opn /\ k.st = "ok" THEN FreeScanner ELSE reader
        rs1 == IF opn /\ k.st = "ok"
               THEN [s \in ScannerIds |->
                        IF s = FreeScanner THEN k.r
                        ELSE IF s = reader THEN kron_reader_dtor(readers[s])
                        ELSE readers[s]]
               ELSE readers
    IN  IF opn /\ k.st # "ok"
        THEN [st |-> k.st, path |-> p1, reader |-> rd1, readers |-> rs1,
              opened |-> FALSE, needed_edge |-> 0, begin_edge |-> 0]
        ELSE LET q == plan(total_edges(rs1[rd1]), cfg)
             IN  [st |-> q.st, path |-> p1, reader |-> rd1, readers |-> rs1,
                  opened |-> opn,
                  needed_edge |-> q.needed_edge, begin_edge |-> q.begin_edge]

(***************************************************************************)
(* bin_loader over a kron_reader (the synthetic-format adapter).           *)
(***************************************************************************)
\* rewind as it would be if it only reset the counter.
rewind_no_seek(ad, r, d) ==
    [ad |-> [ad EXCEPT !.loaded_edges = 0], r |-> r, st |-> "ok"]

\* bin_loader::rewind: the result of seek is not looked at.
rewind(ad, r, d) ==
    LET s == seek(r, ad.begin_edge, d)
    IN  [ad |-> [ad EXCEPT !.loaded_edges = 0], r |-> s.r, st |-> s.st]

\* next_edge as it would be without the test of _loaded_edges.
next_edge_unbounded(ad, r, d) ==
    LET o == next(r, d)
    IN  [ad |-> [ad EXCEPT !.loaded_edges =
                     ad.loaded_edges + (IF o.ok THEN 1 ELSE 0)],
         r |-> o.r, ok |-> o.ok, st |-> o.st,
         tail |-> o.tail, head |-> o.head]

\* bin_loader::next_edge
next_edge(ad, r, d) ==
    IF ad.loaded_edges = ad.needed_edges
    THEN [ad |-> ad, r |-> r, ok |-> FALSE, st |-> "ok", tail |-> -1, head |-> -1]
    ELSE LET o == next(r, d)
         IN  [ad |-> [ad EXCEPT !.loaded_edges =
                          ad.loaded_edges + (IF o.ok THEN 1 ELSE 0)],
              r |-> o.r, ok |-> o.ok, st |-> o.st,
              tail |-> o.tail, head |-> o.head]

\* stat as it would be if it reported the size of the whole input.
stat_whole_input(ad, r) ==
    [ok |-> TRUE, nodes |-> total_nodes(r), edges |-> total_edges(r)]

\* bin_loader::stat
stat(ad, r) == [ok |-> TRUE, nodes |-> total_nodes(r), edges |-> ad.needed_edges]

\* bin_loader::bin_loader
bin_loader(rid, needed, begin, owner, cfg, fresh) ==
    [NoAdapter EXCEPT !.alive = TRUE, !.owner = owner, !.reader = rid,
                      !.begin_edge = begin, !.needed_edges = needed,
                      !.loaded_edges = 0, !.cfg = cfg, !.fresh = fresh]

(***************************************************************************)
(* Front-end operations of the synthetic format.  cap is the number of     *)
(* adapters the caller keeps at one time.                                  *)
(***************************************************************************)
\* The common part of load_direct, load_incremental and create_data_source:
\* init(file, config), then the bin_loader constructor (which rewinds).
Entry(op, file, cfg, owner, cap) ==
    /\ proc = "ok" /\ pc = 0
    /\ Cardinality(LiveAdapters) < cap
    /\ LET i == init(file, cfg)
       IN  /\ path' = i.path
           /\ call' = [op |-> op, file |-> file, cfg |-> cfg]
           /\ ret' = NoRet
           /\ IF i.st # "ok"
              THEN /\ proc' = i.st
                   /\ reader' = i.reader
                   /\ readers' = i.readers
                   /\ UNCHANGED <<adapters, pc>>
              ELSE LET a  == FreeAdapter
                       w  == rewind(bin_loader(i.reader, i.needed_edge, i.begin_edge,
                                               owner, cfg, i.opened),
                                    i.readers[i.reader], disk[file])
                   IN  /\ reader' = i.reader
                       /\ readers' = [i.readers EXCEPT ![i.reader] = w.r]
                       /\ adapters' = [b \in AdapterIds |->
                                         IF b = a THEN w.ad
                                         ELSE IF i.opened /\ adapters[b].alive
                                              THEN [adapters[b] EXCEPT !.stale = TRUE]
                                              ELSE adapters[b]]
                       /\ proc' = w.st
                       /\ pc' = IF owner = "load" THEN a ELSE 0
    /\ UNCHANGED <<disk, pl, dir, binfile, bl, dl>>

\* ll_loader_bin::load_direct up to the call of loader.load_direct
load_direct(file, cfg, cap) == Entry("load_direct", file, cfg, "load", cap)

\* ll_loader_bin::load_incremental up to the call of loader.load_incremental
load_incremental(file, cfg, cap) == Entry("load_incremental", file, cfg, "load", cap)

\* ll_loader_bin::create_data_source
create_data_source(file, cap) ==
    Entry("create_data_source", file, NullConfig, "source", cap)

\* The return of a load as it would be if the bin_loader were heap-allocated
\* and never deleted.
LoadReturn_leak(r) ==
    /\ proc = "ok" /\ pc # 0
    /\ pc' = 0
    /\ proc' = IF r THEN "ok" ELSE "abort"
    /\ ret' = [NoRet EXCEPT !.op = "load_return", !.ok = r]
    /\ call' = NoCall
    /\ UNCHANGED <<disk, path, reader, readers, adapters, pl, dir, binfile, bl, dl>>

\* The graph builder's pass returns r; the local bin_loader is destroyed;
\* if (!r) abort().
LoadReturn(r) ==
    /\ proc = "ok" /\ pc # 0
    /\ adapters' = [adapters EXCEPT ![pc] = NoAdapter]
    /\ pc' = 0
    /\ proc' = IF r THEN "ok" ELSE "abort"
    /\ ret' = [NoRet EXCEPT !.op = "load_return", !.ok = r]
    /\ call' = NoCall
    /\ UNCHANGED <<disk, path, reader, readers, pl, dir, binfile, bl, dl>>

\* The caller deletes a data source it was given.
DeleteSource(a) ==
    /\ proc = "ok" /\ pc = 0
    /\ adapters[a].alive /\ adapters[a].owner = "source"
    /\ adapters' = [adapters EXCEPT ![a] = NoAdapter]
    /\ ret' = [NoRet EXCEPT !.op = "delete", !.arg = a, !.ok = TRUE]
    /\ call' = NoCall
    /\ UNCHANGED <<disk, proc, path, reader, readers, pc, pl, dir, binfile, bl, dl>>

\* Who may call the adapter: the builder of the load in progress, or, between
\* front-end calls, the holder of a data source.
CanUse(a) ==
    /\ proc = "ok"
    /\ adapters[a].alive
    /\ pc = a \/ (pc = 0 /\ adapters[a].owner = "source")

\* A call through the adapter's raw kron_reader pointer after the scanner
\* has been destroyed.
Dangling(a) == adapters[a].stale

UseDangling ==
    /\ proc' = "ub"
    /\ ret' = NoRet
    /\ call' = NoCall
    /\ UNCHANGED <<disk, path, reader, readers, adapters, pc, pl, dir, binfile, bl, dl>>

NextEdge(a) ==
    /\ CanUse(a)
    /\ IF Dangling(a) THEN UseDangling
       ELSE
       LET ad == adapters[a]
           r  == readers[ad.reader]
           o  == next_edge(ad, r, disk[r.path])
           first == ~o.ok /\ ~ad.eof /\ ~ad.have1
           ad2 == [o.ad EXCEPT !.out = IF o.ok THEN Append(ad.out, <<o.tail, o.head>>)
                                               ELSE ad.out,
                               !.eof = ad.eof \/ ~o.ok,
                               !.have1 = ad.have1 \/ first,
                               !.pass1 = IF first THEN ad.out ELSE ad.pass1]
       IN  /\ proc' = o.st
           /\ readers' = [readers EXCEPT ![ad.reader] = o.r]
           /\ adapters' = [adapters EXCEPT ![a] = IF o.st = "ok" THEN ad2 ELSE ad]
           /\ ret' = [op |-> "next_edge", arg |-> a, ok |-> o.ok,
                      tail |-> o.tail, head |-> o.head]
           /\ call' = NoCall
           /\ UNCHANGED <<disk, path, reader, pc, pl, dir, binfile, bl, dl>>

Rewind(a) ==
    /\ CanUse(a)
    /\ IF Dangling(a) THEN UseDangling
       ELSE
       LET ad == adapters[a]
           r  == readers[ad.reader]
           w  == rewind(ad, r, disk[r.path])
       IN  /\ proc' = w.st
           /\ readers' = [readers EXCEPT ![ad.reader] = w.r]
           /\ adapters' = [adapters EXCEPT ![a] =
                              [w.ad EXCEPT !.out = <<>>, !.eof = FALSE]]
           /\ ret' = [NoRet EXCEPT !.op = "rewind", !.arg = a, !.ok = TRUE]
           /\ call' = NoCall
           /\ UNCHANGED <<disk, path, reader, pc, pl, dir, binfile, bl, dl>>

Stat(a) ==
    /\ CanUse(a)
    /\ IF Dangling(a) THEN UseDangling
       ELSE
       LET ad == adapters[a]
           t  == stat(ad, readers[ad.reader])
       IN  /\ ret' = [op |-> "stat", arg |-> a, ok |-> t.ok,
                      tail |-> t.nodes, head |-> t.edges]
           /\ call' = NoCall
           /\ UNCHANGED <<disk, proc, path, reader, readers, adapters, pc, pl, dir, binfile, bl, dl>>

(***************************************************************************)
(* The plain edge-list directory loader: bin_loader<NodeType> over a       *)
(* directory iterator and one FILE*.                                       *)
(*                                                                         *)
(* dir = [files, bad]: files[i] is the record count of the i-th file in    *)
(* directory-iteration order, bad the files on which a read fails.         *)
(* _iter is an index into files, Len(files) + 1 being end(_iter).          *)
(* _file is [st, id, pos, eof, err]: st is "null", "open" or "closed" (the *)
(* pointer still holds a handle that fclose has released).                 *)
(***************************************************************************)
PlainPath == <<9, 9>>

NoDir == [files |-> <<>>, bad |-> {}]

NullFile == [st |-> "null", id |-> 0, pos |-> 0, eof |-> FALSE, err |-> FALSE]

\* The history kept of the loader's passes is that of NoAdapter; rewound
\* tells that the consumer has called rewind, and passn is the output of the
\* current pass at its first exhaustion signal.
NoDirLoader ==
    [alive |-> FALSE, loaded_edges |-> 0,
     buffer |-> [i \in 0..(BUFFER_SIZE - 1) |-> Uninit],
     cur |-> 0, count |-> 0, iter |-> 1, file |-> NullFile,
     rewound |-> FALSE,
     out |-> <<>>, eof |-> FALSE, passn |-> <<>>, have1 |-> FALSE, pass1 |-> <<>>]

\* bin_loader::open_file on the file _iter points at (fopen of a directory
\* entry that exists does not fail here).
open_file(l) ==
    [l EXCEPT !.file = [st |-> "open", id |-> l.iter, pos |-> 0,
                        eof |-> FALSE, err |-> FALSE]]

\* fread(_buffer, sizeof(EdgeType), BUFFER_SIZE, _file) on an open file:
\* sets _count and the stream's position and indicators.
dir_fread(l, d) ==
    LET h   == l.file
        cnt == IF h.id \in d.bad THEN 0
               ELSE Min(BUFFER_SIZE, Max(0, d.files[h.id] - h.pos))
    IN  [l EXCEPT !.count = cnt,
                  !.buffer = [i \in 0..(BUFFER_SIZE - 1) |->
                                 IF i < cnt THEN RecordOf(PlainPath, h.id, h.pos + i)
                                 ELSE l.buffer[i]],
                  !.file = [h EXCEPT !.pos = h.pos + cnt,
                                     !.eof = h.eof \/ (h.id \notin d.bad /\ cnt < BUFFER_SIZE),
                                     !.err = h.err \/ h.id \in d.bad]]

\* bin_loader::next_file: [l, ok]
next_file(l, d) ==
    LET closed == [l EXCEPT !.file.st = "closed", !.iter = l.iter + 1]
    IN  IF l.iter + 1 = Len(d.files) + 1
        THEN [l |-> closed, ok |-> FALSE]
        ELSE [l |-> open_file(closed), ok |-> TRUE]

\* bin_loader::read_buffer: [l, ok, st]
RECURSIVE read_buffer(_, _)
read_buffer(l, d) ==
    IF l.file.st # "open"
    THEN [l |-> l, ok |-> FALSE, st |-> "ub"]       \* fread on a closed FILE*
    ELSE
    LET a == dir_fread(l, d)
    IN  IF a.file.err THEN [l |-> a, ok |-> FALSE, st |-> "abort"]
        ELSE
        LET nf == IF a.file.eof THEN next_file(a, d) ELSE [l |-> a, ok |-> TRUE]
        IN  IF ~nf.ok THEN [l |-> nf.l, ok |-> FALSE, st |-> "ok"]
            ELSE LET b == dir_fread(nf.l, d)
                 IN  IF b.count = 0 THEN read_buffer(b, d)
                     ELSE [l |-> [b EXCEPT !.cur = 0], ok |-> TRUE, st |-> "ok"]

\* bin_loader::next_edge: [l, ok, st, tail, head]
dir_next_edge(l, d) ==
    LET rb == IF l.cur = l.count THEN read_buffer(l, d)
                                 ELSE [l |-> l, ok |-> TRUE, st |-> "ok"]
    IN  IF rb.st # "ok" \/ ~rb.ok
        THEN [l |-> rb.l, ok |-> FALSE, st |-> rb.st, tail |-> -1, head |-> -1]
        ELSE IF rb.l.cur >= BUFFER_SIZE
             THEN [l |-> rb.l, ok |-> FALSE, st |-> "ub", tail |-> -1, head |-> -1]
             ELSE [l |-> [rb.l EXCEPT !.cur = rb.l.cur + 1,
                                      !.loaded_edges = rb.l.loaded_edges + 1],
                   ok |-> TRUE, st |-> "ok",
                   tail |-> rb.l.buffer[rb.l.cur][2],
                   head |-> rb.l.buffer[rb.l.cur][1]]

\* rewind as it would be if an empty directory were accepted and the
\* stream simply left without a file.
dir_rewind_lenient(l, d) ==
    IF l.file.st = "closed"
    THEN [l |-> l, st |-> "ub"]
    ELSE LET l1 == [l EXCEPT !.iter = 1]
         IN  IF Len(d.files) = 0
             THEN [l |-> [l1 EXCEPT !.cur = 0, !.count = 0, !.loaded_edges = 0],
                   st |-> "ok"]
             ELSE [l |-> [open_file(l1) EXCEPT !.cur = 0, !.count = 0,
                                               !.loaded_edges = 0],
                   st |-> "ok"]

\* bin_loader::rewind: [l, st]
dir_rewind(l, d) ==
    IF l.file.st = "closed"
    THEN [l |-> l, st |-> "ub"]                     \* fclose of a closed FILE*
    ELSE LET l1 == [l EXCEPT !.iter = 1]
         IN  IF Len(d.files) = 0
             THEN [l |-> [l1 EXCEPT !.file.st =
                               IF l.file.st = "open" THEN "closed" ELSE l.file.st],
                   st |-> "abort"]
             ELSE [l |-> [open_file(l1) EXCEPT !.cur = 0, !.count = 0,
                                               !.loaded_edges = 0],
                   st |-> "ok"]

\* bin_loader::stat
dir_stat(l) == [ok |-> FALSE, nodes |-> -1, edges |-> -1]


(***************************************************************************)
(* The single-file loader: bin_loader<NodeType> over one FILE* (the        *)
(* variant of the header that accepts a .bin file).  binfile is the number *)
(* of records of the file, -1 when the file does not exist.                *)
(*                                                                         *)
(* file is "null" (fopen failed) or "open"; pos is the stream position in  *)
(* records; last is what the local array nodes[2] holds after the fread.   *)
(***************************************************************************)
BinPath == <<8, 8>>

NoBinLoader ==
    [alive |-> FALSE, nodes |-> 0, edges |-> 0, file |-> "null", pos |-> 0,
     last |-> Uninit, rewinds |-> 0]

\* bin_loader::bin_loader: the result of fopen is not tested.
bin_create(f) ==
    [NoBinLoader EXCEPT !.alive = TRUE,
                        !.file = IF f = -1 THEN "null" ELSE "open"]

\* What nodes[2] may hold when fread stored nothing in it: the array is not
\* initialised, so it holds whatever the stack slot held, for instance the
\* record of the call before.
Indeterminate(l) == {Uninit, l.last}

\* bin_loader::next_edge with nodes[2] = got: [l, ok, st, tail, head].
\* size_t counters wrap; the model keeps CounterBits bits of _edges.
bin_next_edge_got(l, got) ==
    [l    |-> [l EXCEPT !.last = got,
                        !.nodes = Max(Max(l.nodes, got[1] + 1), got[2] + 1),
                        !.edges = (l.edges + 1) % Pow2(CounterBits)],
     ok   |-> TRUE,
     st   |-> "ok",
     tail |-> got[2],
     head |-> got[1]]

\* bin_loader::next_edge: the set of its possible outcomes.  fread on a null
\* FILE* is undefined; at the end of the file fread stores nothing and its
\* result is not looked at.
bin_next_edge(l, f) ==
    IF l.file = "null"
    THEN {[l |-> l, ok |-> FALSE, st |-> "ub", tail |-> -1, head |-> -1]}
    ELSE IF l.pos < f
         THEN {bin_next_edge_got([l EXCEPT !.pos = l.pos + 1],
                                 RecordOf(BinPath, 0, l.pos))}
         ELSE {bin_next_edge_got(l, g) : g \in Indeterminate(l)}

\* bin_loader::rewind: [l, st]
bin_rewind(l) ==
    IF l.file = "null" THEN [l |-> l, st |-> "ub"]      \* fseek(NULL, ...)
    ELSE [l |-> [l EXCEPT !.pos = 0, !.nodes = 0, !.edges = 0], st |-> "ok"]

\* bin_loader::stat
bin_stat(l) == [ok |-> TRUE, nodes |-> l.nodes, edges |-> l.edges]

(***************************************************************************)
(* Initial states and the specification of sequential use: the caller      *)
(* holds one adapter at a time.                                            *)
(***************************************************************************)
NoPlans == [total |-> 0, nparts |-> 0, res |-> <<>>]

InitRest ==
    /\ proc = "ok"
    /\ path = NoPath
    /\ reader = 0
    /\ readers = [s \in ScannerIds |-> NoReader]
    /\ adapters = [a \in AdapterIds |-> NoAdapter]
    /\ pc = 0
    /\ call = NoCall
    /\ ret = NoRet
    /\ binfile = -1
    /\ bl = NoBinLoader

Init ==
    /\ disk \in {WellFormedDisk(e) : e \in 1..MaxEpf}
    /\ InitRest
    /\ pl = NoPlans
    /\ dir = NoDir
    /\ dl = NoDirLoader

Next ==
    \/ \E f \in DOMAIN disk, c \in Configs : load_direct(f, c, 1)
    \/ \E f \in DOMAIN disk, c \in Configs : load_incremental(f, c, 1)
    \/ \E f \in DOMAIN disk : create_data_source(f, 1)
    \/ \E r \in BOOLEAN : LoadReturn(r)
    \/ \E a \in AdapterIds : DeleteSource(a)
    \/ \E a \in AdapterIds : NextEdge(a)
    \/ \E a \in AdapterIds : Rewind(a)
    \/ \E a \in AdapterIds : Stat(a)

Spec == Init /\ [][Next]_vars

(***************************************************************************)
(* The scanner on its own: a caller that builds one kron_reader and calls  *)
(* seek and next in any order.                                             *)
(***************************************************************************)
ReaderOpen(p) ==
    /\ proc = "ok" /\ reader = 0
    /\ LET k == kron_reader(p, disk[p])
       IN  /\ proc' = k.st
           /\ path' = p
           /\ reader' = IF k.st = "ok" THEN 1 ELSE 0
           /\ readers' = IF k.st = "ok" THEN [readers EXCEPT ![1] = k.r] ELSE readers
    /\ ret' = NoRet
    /\ UNCHANGED <<disk, adapters, pc, call, pl, dir, binfile, bl, dl>>

ReaderSeek(n) ==
    /\ proc = "ok" /\ reader # 0
    /\ n <= readers[reader].total_edges + 1
    /\ LET r == readers[reader]
           s == seek(r, n, disk[r.path])
       IN  /\ proc' = s.st
           /\ readers' = [readers EXCEPT ![reader] = s.r]
           /\ ret' = [NoRet EXCEPT !.op = "seek", !.arg = n, !.ok = s.ok]
    /\ UNCHANGED <<disk, path, reader, adapters, pc, call, pl, dir, binfile, bl, dl>>

\* ret.arg: the index just sought, when the call before was a successful seek.
ReaderNext ==
    /\ proc = "ok" /\ reader # 0
    /\ LET r == readers[reader]
           o == next(r, disk[r.path])
       IN  /\ proc' = o.st
           /\ readers' = [readers EXCEPT ![reader] = o.r]
           /\ ret' = [op |-> "next",
                      arg |-> IF ret.op = "seek" /\ ret.ok THEN ret.arg ELSE -1,
                      ok |-> o.ok, tail |-> o.tail, head |-> o.head]
    /\ UNCHANGED <<disk, path, reader, adapters, pc, call, pl, dir, binfile, bl, dl>>

NextReader ==
    \/ \E p \in DOMAIN disk : ReaderOpen(p)
    \/ \E n \in 0..(LargestTotal + 1) : ReaderSeek(n)
    \/ ReaderNext

SpecReader == Init /\ [][NextReader]_vars

(***************************************************************************)
(* What the input holds, independently of the scanner.                     *)
(***************************************************************************)
\* The record at logical index i of directory p: files are filled in order,
\* each with as many records as block-00.bin.
LogicalRecord(p, i) ==
    LET epf == disk[p].files[1]
    IN  RecordOf(p, i \div epf, i % epf)

\* A record as an adapter or the scanner hands it out: <<tail, head>>.
Delivered(rec) == <<rec[2], rec[1]>>

\* The records next() returns when called on r until it fails.
RECURSIVE ScanAll(_, _, _)
ScanAll(r, d, acc) ==
    LET o == next(r, d)
    IN  IF o.st # "ok" \/ ~o.ok THEN acc
        ELSE ScanAll(o.r, d, Append(acc, <<o.tail, o.head>>))

\* Sequential iteration of a new scanner of p from index 0.
Sequential(p) == ScanAll(kron_reader(p, disk[p]).r, disk[p], <<>>)

\* The records next_edge() returns when called on ad until it fails.
RECURSIVE Drain(_, _, _, _)
Drain(ad, r, d, acc) ==
    LET o == next_edge(ad, r, d)
    IN  IF o.st # "ok" \/ ~o.ok THEN acc
        ELSE Drain(o.ad, o.r, d, Append(acc, <<o.tail, o.head>>))

\* The record sequence of an unsharded load of p by a new front-end.
Unsharded(p) ==
    LET k == kron_reader(p, disk[p])
        q == plan(total_edges(k.r), NullConfig)
        w == rewind(bin_loader(1, q.needed_edge, q.begin_edge, "load", NullConfig, TRUE),
                    k.r, disk[p])
    IN  Drain(w.ad, w.r, disk[p], <<>>)

(***************************************************************************)
(* C2.  An adapter built with needed_edges = k and begin_edge = b, with    *)
(* b + k <= total_edges, delivers after its construction or a rewind the   *)
(* records at logical indices b, b+1, ... in that order, next_edge         *)
(* succeeds exactly k times and then signals exhaustion on every further   *)
(* call, whatever the scanner holds beyond b + k; loaded_edges never       *)
(* exceeds needed_edges.                                                   *)
(***************************************************************************)
AdapterDeliversItsRange ==
    /\ ret.op \in {"next_edge", "rewind", "stat"} => proc = "ok"
    /\ \A a \in LiveAdapters :
          LET ad == adapters[a]
              r  == readers[ad.reader]
          IN  (proc = "ok" /\ ad.begin_edge + ad.needed_edges <= r.total_edges) =>
                 /\ ad.loaded_edges <= ad.needed_edges
                 /\ Len(ad.out) = ad.loaded_edges
                 /\ \A j \in 1..Len(ad.out) :
                       ad.out[j] = Delivered(LogicalRecord(r.path, ad.begin_edge + j - 1))
                 /\ ad.eof => ad.loaded_edges = ad.needed_edges
                 /\ next_edge(ad, r, disk[r.path]).ok = (ad.loaded_edges < ad.needed_edges)

\* A shard that ends before the end of the input has been read to exhaustion.
AdapterStoppedBeforeScannerEnd ==
    \E a \in LiveAdapters :
        /\ proc = "ok"
        /\ adapters[a].eof
        /\ adapters[a].needed_edges >= 2
        /\ Len(adapters[a].out) = adapters[a].needed_edges
        /\ adapters[a].begin_edge + adapters[a].needed_edges
              < readers[adapters[a].reader].total_edges
        /\ ret.op = "next_edge" /\ ~ret.ok

(***************************************************************************)
(* C4.  From any state of the scanner reached by seek and next calls, and  *)
(* for every n < total_edges, seek(n) followed by one next() returns the   *)
(* record that sequential next() iteration from index 0 returns at         *)
(* position n.                                                             *)
(***************************************************************************)
SeekThenNextIsSequential ==
    (proc = "ok" /\ reader # 0) =>
        LET r == readers[reader]
            d == disk[r.path]
            S == Sequential(r.path)
        IN  /\ \A n \in 0..(r.total_edges - 1) :
                  LET s == seek(r, n, d)
                      o == next(s.r, d)
                  IN  /\ s.st = "ok" /\ s.ok
                      /\ o.st = "ok" /\ o.ok
                      /\ n + 1 <= Len(S)
                      /\ <<o.tail, o.head>> = S[n + 1]
            /\ (ret.op = "next" /\ ret.arg >= 0) =>
                  /\ ret.ok
                  /\ ret.arg + 1 <= Len(S)
                  /\ <<ret.tail, ret.head>> = S[ret.arg + 1]

\* next() has just returned the record of an index reached by a seek that
\* went back into an earlier backing file.
SeekBackThenNext ==
    /\ proc = "ok" /\ reader # 0
    /\ ret.op = "next" /\ ret.ok /\ ret.arg >= 0
    /\ ret.arg > 0
    /\ readers[reader].begin = ret.arg
    /\ Len(disk[path].files) >= 2
    /\ readers[reader].cur_file_id = 0

(***************************************************************************)
(* C7.  For a synthetic input and num_parts dividing total_edges, shard    *)
(* part_index read to exhaustion yields the part_index-th of num_parts     *)
(* equal consecutive pieces of the record sequence of an unsharded load    *)
(* (so the shards concatenated in order are that sequence, nothing         *)
(* dropped, repeated or reordered), both on a scanner opened by the call   *)
(* and on a cached scanner reused by the call.                             *)
(***************************************************************************)
PartsOf(cfg) == IF cfg[1] = 0 THEN 1 ELSE cfg[1]

PartOf(cfg) == IF cfg[1] = 0 THEN 1 ELSE cfg[2]

ShardsConcatenateToUnsharded ==
    \A a \in LiveAdapters :
        LET ad == adapters[a]
            U  == Unsharded(readers[ad.reader].path)
            k  == Len(ad.out)
        IN  (proc = "ok" /\ ad.eof) =>
               /\ PartsOf(ad.cfg) * k = Len(U)
               /\ ad.out = SubSeq(U, (PartOf(ad.cfg) - 1) * k + 1, PartOf(ad.cfg) * k)

\* The second of two shards has been read to exhaustion through a front-end
\* that reused its cached scanner.
SecondShardReadOnCachedScanner ==
    \E a \in LiveAdapters :
        /\ proc = "ok"
        /\ adapters[a].eof /\ ~adapters[a].fresh
        /\ adapters[a].cfg = <<2, 2>>
        /\ Len(adapters[a].out) >= 2

(***************************************************************************)
(* C9.  A front-end call for the cached path keeps the scanner object it   *)
(* has (no scanner is built); a call on a new front-end or for another     *)
(* path builds a new scanner for that path and destroys the old one; after *)
(* every call the cached scanner is the one opened for the cached path.    *)
(***************************************************************************)
FrontEndCachesScannerByPath ==
    [][call'.op # "none" =>
          LET f == call'.file
          IN  /\ (reader # 0 /\ path = f) =>
                    /\ reader' = reader
                    /\ readers'[reader].alive
                    /\ \A s \in ScannerIds \ {reader} : readers'[s] = readers[s]
              /\ (reader = 0 \/ path # f) =>
                    /\ reader' # 0 /\ reader' # reader
                    /\ readers'[reader'].alive
                    /\ reader # 0 => ~readers'[reader].alive
              /\ path' = f
              /\ readers'[reader'].path = f
              /\ \A s \in ScannerIds \ {reader'} : ~readers'[s].alive]_vars

\* A call has just reused the scanner that an earlier call for another path
\* had built in place of the first one.
ReusedSecondScanner ==
    /\ proc = "ok"
    /\ call.op # "none"
    /\ reader = 2
    /\ \E a \in LiveAdapters : ~adapters[a].fresh /\ adapters[a].reader = 2

(***************************************************************************)
(* C10.  As stated: no adapter exists once the front-end call that         *)
(* created it has returned.                                                *)
(***************************************************************************)
NoAdapterOutlivesItsCall ==
    (proc = "ok" /\ pc = 0) => LiveAdapters = {}

(***************************************************************************)
(* C10, amended.  The adapter of load_direct or load_incremental exists    *)
(* only while that operation runs; an adapter alive between front-end      *)
(* calls is one that create_data_source returned to its caller.  The       *)
(* scanner stays with the front-end when the load's adapter goes.          *)
(***************************************************************************)
OnlyDataSourcesOutliveTheirCall ==
    proc = "ok" =>
        /\ pc = 0 => \A a \in LiveAdapters : adapters[a].owner = "source"
        /\ pc # 0 => /\ adapters[pc].alive /\ adapters[pc].owner = "load"
                     /\ adapters[pc].reader = reader
                     /\ \A a \in LiveAdapters \ {pc} : adapters[a].owner = "source"
        /\ ret.op = "load_return" => /\ reader # 0
                                     /\ readers[reader].alive
                                     /\ readers[reader].path = path

\* A load has returned: its adapter is gone and the scanner is still cached.
LoadReturnedAdapterGone ==
    /\ proc = "ok" /\ pc = 0
    /\ ret.op = "load_return"
    /\ LiveAdapters = {}
    /\ reader # 0 /\ readers[reader].alive /\ readers[reader].begin > 0

(***************************************************************************)
(* The planner on its own: for one total and one num_parts, the caller     *)
(* asks for the plan of one part after another, in any order.              *)
(***************************************************************************)
InitPlan ==
    /\ disk = WellFormedDisk(1)
    /\ InitRest
    /\ pl \in {[total |-> t, nparts |-> n, res |-> <<>>] :
                  t \in 0..MaxPlanTotal, n \in 0..MaxPlanParts}
    /\ dir = NoDir
    /\ dl = NoDirLoader

PlanCall(part) ==
    /\ part \notin DOMAIN pl.res
    /\ pl' = [pl EXCEPT !.res = (part :> plan(pl.total, <<pl.nparts, part>>)) @@ pl.res]
    /\ UNCHANGED <<disk, proc, path, reader, readers, adapters, pc, call, ret, dir, binfile, bl, dl>>

NextPlan == \E part \in 0..(MaxPlanParts + 1) : PlanCall(part)

SpecPlan == InitPlan /\ [][NextPlan]_vars

\* The edge indices [begin_edge, begin_edge + needed_edge) of a plan.
RangeOf(q) == q.begin_edge .. (q.begin_edge + q.needed_edge - 1)

(***************************************************************************)
(* C1.  When num_parts >= 1 divides total_edges, the ranges planned for    *)
(* part_index = 1..num_parts are pairwise disjoint, each of size           *)
(* total_edges / num_parts, and their union is [0, total_edges).           *)
(***************************************************************************)
PlannedRangesTile ==
    (pl.nparts >= 1 /\ pl.total % pl.nparts = 0) =>
        LET done == DOMAIN pl.res \cap (1..pl.nparts)
        IN  /\ \A i \in done :
                  /\ pl.res[i].st = "ok"
                  /\ pl.res[i].needed_edge * pl.nparts = pl.total
                  /\ Cardinality(RangeOf(pl.res[i])) = pl.res[i].needed_edge
            /\ \A i, j \in done :
                  i # j => RangeOf(pl.res[i]) \cap RangeOf(pl.res[j]) = {}
            /\ done = 1..pl.nparts =>
                  UNION {RangeOf(pl.res[i]) : i \in done} = 0..(pl.total - 1)

\* Every part of a three-way split of a non-empty input has been planned.
AllPartsPlanned ==
    /\ pl.nparts >= 3 /\ pl.total >= 6 /\ pl.total % pl.nparts = 0
    /\ (1..pl.nparts) \subseteq DOMAIN pl.res

(***************************************************************************)
(* C6.  When sharding is requested (num_parts > 0), the planner ends in    *)
(* the fatal configuration error if total_edges % num_parts # 0 and if     *)
(* part_index is outside [1, num_parts]: it returns no range.              *)
(***************************************************************************)
BadConfig(total, nparts, part) ==
    nparts > 0 /\ (total % nparts # 0 \/ part < 1 \/ part > nparts)

PlannerRejectsBadConfig ==
    \A part \in DOMAIN pl.res :
        BadConfig(pl.total, pl.nparts, part) => pl.res[part].st = "abort"

\* 8 edges in 3 parts has been asked for, and so has a part beyond num_parts.
BadConfigsPlanned ==
    /\ pl.total = 8 /\ pl.nparts = 3
    /\ {1, 4} \subseteq DOMAIN pl.res
    /\ pl.res[1].st = "abort" /\ pl.res[4].st = "abort"

\* bin_loader::bin_loader(file_name), as load_direct, load_incremental and
\* create_data_source build it.
DirCreate ==
    /\ proc = "ok" /\ ~dl.alive
    /\ LET w == dir_rewind([NoDirLoader EXCEPT !.alive = TRUE], dir)
       IN  /\ dl' = w.l
           /\ proc' = w.st
    /\ ret' = [NoRet EXCEPT !.op = "create", !.ok = TRUE]
    /\ UNCHANGED <<disk, path, reader, readers, adapters, pc, call, pl, dir, binfile, bl>>

DirNextEdge ==
    /\ proc = "ok" /\ dl.alive
    /\ LET o == dir_next_edge(dl, dir)
           first == ~o.ok /\ ~dl.eof
       IN  /\ proc' = o.st
           /\ dl' = IF o.st # "ok" THEN o.l
                    ELSE [o.l EXCEPT
                            !.out = IF o.ok THEN Append(dl.out, <<o.tail, o.head>>)
                                            ELSE dl.out,
                            !.eof = dl.eof \/ ~o.ok,
                            !.passn = IF first THEN dl.out ELSE dl.passn,
                            !.have1 = dl.have1 \/ first,
                            !.pass1 = IF first /\ ~dl.have1 THEN dl.out ELSE dl.pass1]
           /\ ret' = [op |-> "next_edge", arg |-> 0, ok |-> o.ok,
                      tail |-> o.tail, head |-> o.head]
    /\ UNCHANGED <<disk, path, reader, readers, adapters, pc, call, pl, dir, binfile, bl>>

DirRewind ==
    /\ proc = "ok" /\ dl.alive
    /\ LET w == dir_rewind(dl, dir)
       IN  /\ proc' = w.st
           /\ dl' = IF w.st # "ok" THEN w.l
                    ELSE [w.l EXCEPT !.rewound = TRUE,
                                     !.out = <<>>, !.eof = FALSE, !.passn = <<>>]
    /\ ret' = [NoRet EXCEPT !.op = "rewind", !.ok = TRUE]
    /\ UNCHANGED <<disk, path, reader, readers, adapters, pc, call, pl, dir, binfile, bl>>

DirStat ==
    /\ proc = "ok" /\ dl.alive
    /\ LET t == dir_stat(dl)
       IN  ret' = [op |-> "stat", arg |-> 0, ok |-> t.ok, tail |-> t.nodes, head |-> t.edges]
    /\ UNCHANGED <<disk, proc, path, reader, readers, adapters, pc, call, pl, dir, binfile, bl, dl>>

\* Directories of 0..MaxDirFiles files of 0..MaxFileRecs records, with at
\* most one file that cannot be read.
RECURSIVE SeqsUpTo(_, _)
SeqsUpTo(S, n) ==
    IF n = 0 THEN {<<>>}
    ELSE LET shorter == SeqsUpTo(S, n - 1)
         IN  shorter \cup {Append(q, x) : q \in {t \in shorter : Len(t) = n - 1}, x \in S}

Directories ==
    {[files |-> f, bad |-> b] :
        f \in SeqsUpTo(0..MaxFileRecs, MaxDirFiles),
        b \in {{}} \cup {{i} : i \in 1..MaxDirFiles}}

InitPlain ==
    /\ disk = WellFormedDisk(1)
    /\ InitRest
    /\ pl = NoPlans
    /\ dir \in {d \in Directories : d.bad \subseteq 1..Len(d.files)}
    /\ dl = NoDirLoader

NextPlain ==
    \/ DirCreate
    \/ DirNextEdge
    \/ DirRewind
    \/ DirStat

SpecPlain == InitPlain /\ [][NextPlain]_vars

\* Every record of every file of the directory, in file order then
\* intra-file order, as an adapter delivers records.
RECURSIVE DirRecordsFrom(_, _)
DirRecordsFrom(d, i) ==
    IF i > Len(d.files) THEN <<>>
    ELSE [j \in 1..d.files[i] |-> Delivered(RecordOf(PlainPath, i, j - 1))]
            \o DirRecordsFrom(d, i + 1)

DirRecords(d) == DirRecordsFrom(d, 1)

(***************************************************************************)
(* C5.  As stated: on a plain directory whose files hold r1, ..., rm       *)
(* records, a fresh adapter's next_edge succeeds exactly r1 + ... + rm     *)
(* times, yielding every record of every file once, in file order then     *)
(* intra-file order, and then signals exhaustion.                          *)
(***************************************************************************)
DirLoadYieldsEveryRecord ==
    (proc = "ok" /\ dl.alive /\ dir.bad = {} /\ dl.have1 /\ ~dl.rewound) =>
        dl.pass1 = DirRecords(dir)

(***************************************************************************)
(* C3.  As stated, for the plain-directory adapter: after any prefix of    *)
(* next_edge calls, up to and including the exhaustion signal, rewind()    *)
(* restarts the adapter and the pass that follows yields the records of    *)
(* the first full pass.                                                    *)
(***************************************************************************)
DirRewindReproducesFirstPass ==
    dl.alive =>
        /\ ret.op = "rewind" => proc # "ub"
        /\ (proc = "ok" /\ dl.have1 /\ dl.eof) => dl.passn = dl.pass1

(***************************************************************************)
(* C3, for the synthetic adapter: a pass that ends after the first full    *)
(* pass has delivered the records of the first full pass.                  *)
(***************************************************************************)
RewindReproducesFirstPass ==
    \A a \in LiveAdapters :
        (proc = "ok" /\ adapters[a].have1 /\ adapters[a].eof) =>
            adapters[a].out = adapters[a].pass1

(***************************************************************************)
(* Kron directories that do not conform to what the path name and          *)
(* block-00.bin promise: one directory has one file cut short, or its last *)
(* file missing, or one file on which reads fail.                          *)
(***************************************************************************)
DamagedDirs(d) ==
    {[d EXCEPT !.files[f] = l] : f \in 1..Len(d.files), l \in 0..(MaxEpf - 1)}
        \cup {[d EXCEPT !.files = SubSeq(d.files, 1, Len(d.files) - 1)]}
        \cup {[d EXCEPT !.bad = {f - 1}] : f \in 1..Len(d.files)}

\* The caller names directories that exist: here the damaged one alone.
DamagedDisks ==
    UNION {{[q \in {p} |-> x] :
               x \in {y \in DamagedDirs(WellFormedDisk(e)[p]) :
                         y # WellFormedDisk(e)[p]}} :
           e \in 1..MaxEpf, p \in Paths}

InitFault ==
    /\ disk \in DamagedDisks
    /\ InitRest
    /\ pl = NoPlans
    /\ dir = NoDir
    /\ dl = NoDirLoader

SpecFault == InitFault /\ [][Next]_vars

\* The record of logical index i is in the backing files of p, where the
\* scanner's addressing (i / edges_per_file, i % edges_per_file) looks for it.
Present(p, i) ==
    /\ Len(disk[p].files) >= 1
    /\ disk[p].files[1] >= 1
    /\ LET epf == disk[p].files[1]
       IN  /\ i \div epf + 1 <= Len(disk[p].files)
           /\ i % epf < disk[p].files[i \div epf + 1]
           /\ (i \div epf) \notin disk[p].bad

(***************************************************************************)
(* C8.  As stated: a truncated backing file is never silently tolerated    *)
(* and a read error is fatal: next_edge never returns success for a        *)
(* logical index whose record is not in the backing files, and what it     *)
(* returns for an index is the record stored there.                        *)
(***************************************************************************)
NoSuccessForAbsentRecord ==
    \A a \in LiveAdapters :
        LET ad == adapters[a]
            p  == readers[ad.reader].path
        IN  \A j \in 1..Len(ad.out) :
               /\ Present(p, ad.begin_edge + j - 1)
               /\ ad.out[j] = Delivered(LogicalRecord(p, ad.begin_edge + j - 1))

(***************************************************************************)
(* C11.  A load_direct or load_incremental whose configuration is in error *)
(* (num_parts does not divide total_edges, or part is outside              *)
(* 1..num_parts) ends the process in that call, before any backing file is *)
(* opened or read: no adapter is built, a cached scanner that the call     *)
(* keeps is left exactly as it was, and a scanner that the call builds     *)
(* holds no open file and an empty buffer.                                 *)
(***************************************************************************)
ConfigError(file, cfg) ==
    /\ cfg[1] > 0
    /\ \/ NameTotalEdges(file) % cfg[1] # 0
       \/ cfg[2] <= 0
       \/ cfg[2] > cfg[1]

ConfigErrorBeforeIO ==
    [][(/\ call'.op \in {"load_direct", "load_incremental"}
        /\ ConfigError(call'.file, call'.cfg))
       => /\ proc' = "abort"
          /\ adapters' = adapters
          /\ \A s \in ScannerIds :
                \/ ~readers'[s].alive
                \/ readers'[s] = readers[s]
                \/ /\ readers'[s].file = -1
                   /\ readers'[s].len = 0
                   /\ \A i \in 0..(BUFFER_SIZE - 1) : readers'[s].buffer[i] = Uninit]_vars

\* 3 parts asked of a directory whose record count 3 does not divide, on a
\* front-end whose cached scanner has a backing file open.
ConfigErrorOnCachedScanner ==
    /\ proc = "abort"
    /\ call.op \in {"load_direct", "load_incremental"}
    /\ call.cfg[1] = 3
    /\ NameTotalEdges(call.file) % 3 # 0
    /\ reader # 0
    /\ readers[reader].path = call.file
    /\ readers[reader].file # -1

(***************************************************************************)
(* C12.  Sequential next() on the synthetic scanner.  In every state of    *)
(* the scanner its position begin + cur is at most total_edges; below      *)
(* total_edges the next call of next() succeeds with the record of that    *)
(* logical index and moves the position on by one, refilling the buffer    *)
(* and moving to the next backing file where needed; at total_edges it     *)
(* returns false, does not fail and leaves the scanner as it was, so the   *)
(* calls after it report exhaustion too.  Iteration of a new scanner       *)
(* returns records 0 .. total_edges-1 in order.                            *)
(***************************************************************************)
NextIsSequential ==
    (proc = "ok" /\ reader # 0) =>
        LET r   == readers[reader]
            d   == disk[r.path]
            pos == r.begin + r.cur
            o   == next(r, d)
        IN  /\ pos <= r.total_edges
            /\ o.st = "ok"
            /\ IF pos < r.total_edges
               THEN /\ o.ok
                    /\ <<o.tail, o.head>> = Delivered(LogicalRecord(r.path, pos))
                    /\ o.r.begin + o.r.cur = pos + 1
               ELSE /\ ~o.ok
                    /\ o.r = r
            /\ Sequential(r.path) =
                  [i \in 1..r.total_edges |-> Delivered(LogicalRecord(r.path, i - 1))]
            /\ (ret.op = "next" /\ ~ret.ok) => pos = r.total_edges

\* next() has reported exhaustion on a scanner whose last refill moved it
\* into a later backing file in the middle of the buffer sequence.
ExhaustedPastFileBoundary ==
    /\ proc = "ok" /\ reader # 0
    /\ ret.op = "next" /\ ~ret.ok /\ ret.arg = -1
    /\ readers[reader].cur_file_id >= 1
    /\ readers[reader].total_edges > 0
    /\ readers[reader].edges_per_file > BUFFER_SIZE

(***************************************************************************)
(* A caller of either build of the loader: the synthetic-format front-end  *)
(* over the Kron directories, or the plain-directory adapter over a        *)
(* directory with at least one file.                                       *)
(***************************************************************************)
InitEither == Init \/ InitPlain

NextEither ==
    \/ dir = NoDir /\ \E f \in DOMAIN disk, c \in Configs : load_direct(f, c, 1)
    \/ dir = NoDir /\ \E f \in DOMAIN disk, c \in Configs : load_incremental(f, c, 1)
    \/ dir = NoDir /\ \E f \in DOMAIN disk : create_data_source(f, 1)
    \/ dir = NoDir /\ \E r \in BOOLEAN : LoadReturn(r)
    \/ dir = NoDir /\ \E a \in AdapterIds : DeleteSource(a)
    \/ dir = NoDir /\ \E a \in AdapterIds : NextEdge(a)
    \/ dir = NoDir /\ \E a \in AdapterIds : Rewind(a)
    \/ dir = NoDir /\ \E a \in AdapterIds : Stat(a)
    \/ dir # NoDir /\ DirCreate
    \/ dir # NoDir /\ DirNextEdge
    \/ dir # NoDir /\ DirRewind
    \/ dir # NoDir /\ DirStat

SpecEither == InitEither /\ [][NextEither]_vars

(***************************************************************************)
(* C13.  stat() on a synthetic-format adapter succeeds with                *)
(* (total_nodes, needed_edges), needed_edges being the size of the         *)
(* adapter's own partition, in any state of the adapter, and changes       *)
(* neither the adapter (loaded_edges) nor the scanner (cursor, buffer), so *)
(* the records that follow are those that would have followed without the *)
(* call; stat() on a plain-directory adapter reports unavailable and       *)
(* changes nothing either.                                                 *)
(***************************************************************************)
StatIsPure ==
    [][ret'.op = "stat" =>
        /\ proc' = proc
        /\ readers' = readers /\ adapters' = adapters
        /\ dl' = dl /\ dir' = dir /\ disk' = disk
        /\ IF dl.alive
           THEN ~ret'.ok
           ELSE LET ad == adapters[ret'.arg]
                    p  == readers[ad.reader].path
                IN  /\ ad.alive
                    /\ ret'.ok
                    /\ ret'.tail = Pow2(p[1])
                    /\ ret'.head = ad.needed_edges
                    /\ ret'.head * PartsOf(ad.cfg) = NameTotalEdges(p)]_vars

\* stat() has answered for the second of two shards in the middle of its pass.
StatOfShardMidPass ==
    /\ proc = "ok"
    /\ ret.op = "stat" /\ ret.ok
    /\ adapters[ret.arg].alive
    /\ adapters[ret.arg].cfg = <<2, 2>>
    /\ adapters[ret.arg].loaded_edges > 0
    /\ adapters[ret.arg].loaded_edges < adapters[ret.arg].needed_edges
    /\ ret.head = adapters[ret.arg].needed_edges

(***************************************************************************)
(* C14.  Plain directory format, empty directory: the construction of the  *)
(* adapter ends the process with a fatal error, no file having been opened *)
(* and nothing having been read, so next_edge never returns a record; and  *)
(* rewind() of an adapter whose directory is found empty ends the process  *)
(* the same way, opening no file and reading nothing.                      *)
(***************************************************************************)
EmptyDirFailsFast ==
    /\ (Len(dir.files) = 0 /\ dl.alive) =>
          /\ proc = "abort"
          /\ ret.op = "create"
          /\ dl.file = NullFile
          /\ dl.count = 0 /\ dl.loaded_edges = 0
          /\ \A i \in 0..(BUFFER_SIZE - 1) : dl.buffer[i] = Uninit
          /\ dl.out = <<>>
    /\ (proc = "ok" /\ dl.alive /\ dl.file.st # "closed") =>
          LET w == dir_rewind(dl, NoDir)
          IN  /\ w.st = "abort"
              /\ w.l.file.st # "open"
              /\ w.l.file.pos = dl.file.pos
              /\ w.l.buffer = dl.buffer /\ w.l.count = dl.count

\* An adapter was constructed on an empty directory.
ConstructedOnEmptyDir ==
    /\ Len(dir.files) = 0
    /\ ret.op = "create"
    /\ proc = "abort"

(***************************************************************************)
(* C15.  seek(n) on the synthetic scanner with n inside the buffered       *)
(* window [begin, begin + len) returns true and only sets the cursor to    *)
(* n - begin: the buffer contents, the window start, the filled length,    *)
(* the open file handle and the current file id are those from before the  *)
(* call (no open, no file seek, no read).                                  *)
(***************************************************************************)
SeekInsideWindowMovesCursorOnly ==
    [][(/\ ret'.op = "seek"
        /\ reader # 0
        /\ ret'.arg >= readers[reader].begin
        /\ ret'.arg < readers[reader].begin + readers[reader].len)
       => /\ ret'.ok
          /\ proc' = "ok"
          /\ readers' = [readers EXCEPT
                            ![reader].cur = ret'.arg - readers[reader].begin]]_vars

\* A seek has moved the cursor to the second slot of a buffer filled earlier.
SoughtInsideWindow ==
    /\ proc = "ok" /\ reader # 0
    /\ ret.op = "seek" /\ ret.ok
    /\ readers[reader].cur = 1
    /\ ret.arg = readers[reader].begin + 1
    /\ readers[reader].len = BUFFER_SIZE
    /\ readers[reader].begin > 0

(***************************************************************************)
(* C16.  seek(n) on the synthetic scanner with n >= total_edges returns    *)
(* false and leaves the scanner (cursor, buffer window, filled length,     *)
(* open file, current file id) exactly as it was; for every                *)
(* n < total_edges it returns true.                                        *)
(***************************************************************************)
SeekPastEndIsNotFound ==
    [][(ret'.op = "seek" /\ reader # 0) =>
        /\ proc' = "ok"
        /\ IF ret'.arg >= readers[reader].total_edges
           THEN ~ret'.ok /\ readers' = readers
           ELSE ret'.ok]_vars

\* seek(total_edges) was refused on a scanner that is in the middle of a
\* buffer of a later backing file.
SeekRefusedMidBuffer ==
    /\ proc = "ok" /\ reader # 0
    /\ ret.op = "seek" /\ ~ret.ok
    /\ ret.arg = readers[reader].total_edges
    /\ readers[reader].file >= 1
    /\ readers[reader].cur > 0
    /\ readers[reader].cur < readers[reader].len

(***************************************************************************)
(* A load from a single .bin file: the consumer builds the loader, calls   *)
(* next_edge as long as it is given records, may ask for the stats, and    *)
(* rewinds a bounded number of times.                                      *)
(***************************************************************************)
BinCreate ==
    /\ proc = "ok" /\ ~bl.alive
    /\ bl' = bin_create(binfile)
    /\ ret' = [NoRet EXCEPT !.op = "create", !.ok = TRUE]
    /\ UNCHANGED <<disk, proc, path, reader, readers, adapters, pc, call, pl, dir, binfile, dl>>

BinNextEdge ==
    /\ proc = "ok" /\ bl.alive
    /\ ~(ret.op = "next_edge" /\ ~ret.ok)
    /\ \E o \in bin_next_edge(bl, binfile) :
          /\ proc' = o.st
          /\ bl' = o.l
          /\ ret' = [op |-> "next_edge", arg |-> 0, ok |-> o.ok,
                     tail |-> o.tail, head |-> o.head]
    /\ UNCHANGED <<disk, path, reader, readers, adapters, pc, call, pl, dir, binfile, dl>>

BinRewind ==
    /\ proc = "ok" /\ bl.alive
    /\ bl.rewinds < MaxRewinds
    /\ LET w == bin_rewind(bl)
       IN  /\ proc' = w.st
           /\ bl' = [w.l EXCEPT !.rewinds = bl.rewinds + 1]
    /\ ret' = [NoRet EXCEPT !.op = "rewind", !.ok = TRUE]
    /\ UNCHANGED <<disk, path, reader, readers, adapters, pc, call, pl, dir, binfile, dl>>

BinStat ==
    /\ proc = "ok" /\ bl.alive
    /\ LET t == bin_stat(bl)
       IN  ret' = [op |-> "stat", arg |-> 0, ok |-> t.ok, tail |-> t.nodes, head |-> t.edges]
    /\ UNCHANGED <<disk, proc, path, reader, readers, adapters, pc, call, pl, dir, binfile, bl, dl>>

InitBin ==
    /\ disk = WellFormedDisk(1)
    /\ proc = "ok"
    /\ path = NoPath
    /\ reader = 0
    /\ readers = [s \in ScannerIds |-> NoReader]
    /\ adapters = [a \in AdapterIds |-> NoAdapter]
    /\ pc = 0
    /\ call = NoCall
    /\ ret = NoRet
    /\ pl = NoPlans
    /\ dir = NoDir
    /\ dl = NoDirLoader
    /\ binfile \in -1..MaxFileRecs
    /\ bl = NoBinLoader

NextBin ==
    \/ BinCreate
    \/ BinNextEdge
    \/ BinRewind
    \/ BinStat

\* The consumer's loop keeps calling next_edge.
SpecBin ==
    /\ InitBin
    /\ [][NextBin]_vars
    /\ WF_vars(BinCreate)
    /\ WF_vars(BinNextEdge)

(***************************************************************************)
(* C17.  As stated, for the single .bin file variant: a consumer that      *)
(* calls next_edge repeatedly after construction or rewind is given the    *)
(* exhaustion signal, or the process ends on a fatal error, after finitely *)
(* many calls.                                                             *)
(***************************************************************************)
BinLoadTerminates ==
    <>(proc # "ok" \/ (ret.op = "next_edge" /\ ~ret.ok))

(***************************************************************************)
(* C18.  As stated: in every reachable state of the synthetic scanner,     *)
(* 0 <= cursor <= filled length <= buffer capacity, so that next() only    *)
(* returns a record from a slot strictly below the filled length; the      *)
(* state reached when a refill in seek reads zero records is included.     *)
(***************************************************************************)
CursorWithinFilledLength ==
    \A s \in ScannerIds :
        readers[s].alive =>
            /\ 0 <= readers[s].cur
            /\ readers[s].cur <= readers[s].len
            /\ readers[s].len <= BUFFER_SIZE

(***************************************************************************)
(* C19.  As stated: in the plain-directory adapter every fread and fclose  *)
(* is applied to an open handle (no use after close, no double close), and *)
(* once next_edge has signalled exhaustion the next_edge calls that follow *)
(* signal exhaustion again until rewind() restarts the stream.             *)
(***************************************************************************)
PlainHandleUsedOnlyWhileOpen ==
    dl.alive =>
        /\ proc # "ub"
        /\ (proc = "ok" /\ dl.eof /\ ret.op = "next_edge") => ~ret.ok

(***************************************************************************)
(* Shared use: the caller keeps up to two adapters of one front-end at a   *)
(* time (two data sources, or a data source kept across a later load).     *)
(***************************************************************************)
\* No adapter has completed a pass yet: the caller of SpecShared uses its
\* adapters until one of them signals exhaustion.
InFirstPass == \A a \in AdapterIds : ~adapters[a].have1

NextShared ==
    \/ InFirstPass /\ \E f \in DOMAIN disk, c \in Configs : load_direct(f, c, 2)
    \/ InFirstPass /\ \E f \in DOMAIN disk, c \in Configs : load_incremental(f, c, 2)
    \/ InFirstPass /\ \E f \in DOMAIN disk : create_data_source(f, 2)
    \/ InFirstPass /\ \E r \in BOOLEAN : LoadReturn(r)
    \/ InFirstPass /\ \E a \in AdapterIds : DeleteSource(a)
    \/ InFirstPass /\ \E a \in AdapterIds : NextEdge(a)
    \/ InFirstPass /\ \E a \in AdapterIds : Rewind(a)
    \/ InFirstPass /\ \E a \in AdapterIds : Stat(a)

\* The directories the caller of SpecShared names: two, so that calls on the
\* same path and calls on different paths both occur.
SharedPaths == {<<1, 0>>, <<1, 1>>}

InitShared ==
    /\ disk \in {[p \in SharedPaths |-> WellFormedDisk(e)[p]] : e \in 1..MaxEpf}
    /\ InitRest
    /\ pl = NoPlans
    /\ dir = NoDir
    /\ dl = NoDirLoader

SpecShared == InitShared /\ [][NextShared]_vars

(***************************************************************************)
(* C20.  As stated: two adapters obtained from the same front-end for the  *)
(* same path do not interfere; under any interleaving of their next_edge   *)
(* and rewind calls each adapter yields the records of its own range, in   *)
(* order, as it would if it were used alone.                               *)
(***************************************************************************)
AdaptersDoNotInterfere ==
    \A a \in LiveAdapters :
        LET ad == adapters[a]
            r  == readers[ad.reader]
        IN  (proc = "ok" /\ ~ad.stale) =>
               /\ Len(ad.out) <= ad.needed_edges
               /\ \A j \in 1..Len(ad.out) :
                     ad.out[j] = Delivered(LogicalRecord(r.path, ad.begin_edge + j - 1))
               /\ ad.eof => Len(ad.out) = ad.needed_edges

(***************************************************************************)
(* C21.  As stated: an adapter never uses a scanner that has been          *)
(* destroyed; after create_data_source(A) has returned an adapter, a later *)
(* load_direct, load_incremental or create_data_source with another path B *)
(* leaves that adapter's scanner alive, and next_edge, rewind and stat on  *)
(* the adapter operate on a live scanner for path A.                       *)
(***************************************************************************)
AdapterScannerStaysAlive ==
    /\ proc # "ub"
    /\ \A a \in LiveAdapters :
          /\ ~adapters[a].stale
          /\ readers[adapters[a].reader].alive

(***************************************************************************)
(* C22.  As stated: a synthetic-format front-end holds at most one open    *)
(* backing-file handle at any time; the scanner closes the file it has     *)
(* open before it opens another, and when the cached scanner is discarded  *)
(* for a call that names another path the file it had open is closed, so   *)
(* no handle but the current scanner's is open.                            *)
(***************************************************************************)
OpenHandles == {s \in ScannerIds : readers[s].file # -1}

AtMostOneOpenHandle ==
    /\ Cardinality(OpenHandles) <= 1
    /\ \A s \in OpenHandles : s = reader /\ readers[s].alive

=============================================================================
